---- MODULE Spec2Model ----
(***************************************************************************)
(* Model of src/app.py: a Flask application with one route, `/`, whose     *)
(* handler hello() reads the environment variable MESSAGE with os.getenv   *)
(* (default 'Hello, Default!') and returns f"<h1>{message}</h1>"; the      *)
(* program is started with app.run(host="0.0.0.0", port=80).               *)
(*                                                                         *)
(* Strings are sequences of one-character strings, so that formatting is   *)
(* a concatenation, distinct from escaping or truncating the value.        *)
(* The process environment is a function from the names that are set to    *)
(* their values: a name outside its DOMAIN is unset.                       *)
(***************************************************************************)
EXTENDS Integers, Sequences, FiniteSets, TLC

\* Longest value an environment variable takes in the model.
MaxLen == 1

\* Number of requests the server can have in flight at once.
MaxReq == 2

\* app.run(host="0.0.0.0", port=80)
Port == 80

Host == "0.0.0.0"

\* Characters of environment values: the three HTML-significant ones.
Alphabet == {"<", ">", "&"}

Str == UNION {[1..n -> Alphabet] : n \in 0..MaxLen}

\* The variable hello() reads, and the one the commented-out version read.
EnvKeys == {"MESSAGE", "WELCOME_MESSAGE"}

Envs(K) == UNION {[D -> Str] : D \in SUBSET K}

\* 'Hello, Default!'
Default == <<"H", "e", "l", "l", "o", ",", " ", "D", "e", "f", "a", "u", "l", "t", "!">>

\* Request slots (threads of the serving mechanism).
Reqs == 1..MaxReq

\* The two requests that the specification with the full inputs lets run.
Pair == {1, 2}

\* Request inputs: the path, and a query string the handler never looks at.
Paths == {"/", "/nonexistent"}

Queries == {"", "x=1"}

VARIABLES
    proc,         \* "start", "serving" or "exited"
    port_free,    \* whether port 80 can be bound on 0.0.0.0
    listening,    \* whether the listening socket is bound
    binds,        \* number of bind attempts made
    exit_status,  \* <<>> while the process runs, <<code>> once it has exited
    env,          \* the process environment
    pc,           \* per request: "idle", "hello_23", "hello_24", "done"
    req,          \* per request: the request received
    message,      \* per request: hello()'s local variable
    resp,         \* per request: the response produced
    read_env      \* per request: what MESSAGE was bound to when line 23 ran

vars == <<proc, port_free, listening, binds, exit_status, env, pc, req, message, resp, read_env>>

proc_vars == <<proc, port_free, listening, binds, exit_status>>

req_vars == <<pc, req, message, resp, read_env>>

NoReq == [path |-> "", query |-> ""]

NoResp == [status |-> 0, ctype |-> "", body |-> <<>>]

Restrict(f, S) == [k \in (DOMAIN f) \cap S |-> f[k]]

NoEnv == Restrict(<<>>, {})

----------------------------------------------------------------------------
\* os.getenv(key, default): the value when key is set (the empty string
\* included), default only when key is not set.

\* Variant: `os.getenv(key) or default`, which also replaces an empty value.
os_getenv_falsy(key, default) ==
    IF key \in DOMAIN env /\ env[key] # <<>> THEN env[key] ELSE default

os_getenv(key, default) ==
    IF key \in DOMAIN env THEN env[key] ELSE default

\* HTML escaping of one character.
EscapeChar(c) ==
    CASE c = "<" -> <<"&", "l", "t", ";">>
      [] c = ">" -> <<"&", "g", "t", ";">>
      [] c = "&" -> <<"&", "a", "m", "p", ";">>
      [] OTHER -> <<c>>

RECURSIVE Escape(_)
Escape(s) == IF s = <<>> THEN <<>> ELSE EscapeChar(Head(s)) \o Escape(Tail(s))

\* Variant: the value is HTML-escaped before it is substituted.
fstring_escaped(m) == <<"<", "h", "1", ">">> \o Escape(m) \o <<"<", "/", "h", "1", ">">>

\* f"<h1>{message}</h1>"
fstring(m) == <<"<", "h", "1", ">">> \o m \o <<"<", "/", "h", "1", ">">>

\* Variant: the response is sent as text/plain.
make_response_plain(body) == [status |-> 200, ctype |-> "text/plain", body |-> body]

\* A str returned by a view: Flask answers 200, text/html, with that body.
make_response(body) == [status |-> 200, ctype |-> "text/html", body |-> body]

\* The framework's answer when no rule matches the path.
NotFound ==
    [status |-> 404, ctype |-> "text/html",
     body |-> <<"4", "0", "4", " ", "N", "o", "t", " ", "F", "o", "u", "n", "d">>]

\* The rules registered with @app.route: only '/' -> hello.
url_map == [p \in {"/"} |-> "hello"]

\* Variant: a catch-all rule.
MatchAny(path) == TRUE

Match(path) == path \in DOMAIN url_map

----------------------------------------------------------------------------
Init ==
    /\ proc = "start"
    /\ port_free \in BOOLEAN
    /\ listening = FALSE
    /\ binds = 0
    /\ exit_status = <<>>
    /\ env \in Envs(EnvKeys)
    /\ pc = [r \in Reqs |-> "idle"]
    /\ req = [r \in Reqs |-> NoReq]
    /\ message = [r \in Reqs |-> <<>>]
    /\ resp = [r \in Reqs |-> NoResp]
    /\ read_env = [r \in Reqs |-> NoEnv]

\* Variant: a failed bind is tried again.
app_run_retry ==
    /\ proc = "start"
    /\ binds' = binds + 1
    /\ IF port_free
       THEN /\ proc' = "serving"
            /\ listening' = TRUE
            /\ exit_status' = exit_status
       ELSE /\ proc' = "start"
            /\ listening' = FALSE
            /\ exit_status' = exit_status
    /\ UNCHANGED <<port_free, env, req_vars>>

\* app.run(host="0.0.0.0", port=80): one bind; the server serves when it
\* succeeds, and the error ends the process with status 1 when it fails.
app_run ==
    /\ proc = "start"
    /\ binds' = binds + 1
    /\ IF port_free
       THEN /\ proc' = "serving"
            /\ listening' = TRUE
            /\ exit_status' = exit_status
       ELSE /\ proc' = "exited"
            /\ listening' = FALSE
            /\ exit_status' = <<1>>
    /\ UNCHANGED <<port_free, env, req_vars>>

\* The host changes the environment of the running process.
setenv(k, v) ==
    /\ proc = "serving"
    /\ IF k \in DOMAIN env THEN env[k] # v ELSE TRUE
    /\ env' = [x \in (DOMAIN env) \cup {k} |-> IF x = k THEN v ELSE env[x]]
    /\ UNCHANGED <<proc_vars, req_vars>>

unsetenv(k) ==
    /\ proc = "serving"
    /\ k \in DOMAIN env
    /\ env' = Restrict(env, (DOMAIN env) \ {k})
    /\ UNCHANGED <<proc_vars, req_vars>>

\* A GET request arrives and is routed: to hello when a rule matches its
\* path, to the not-found response otherwise.
dispatch_request(r, path, query) ==
    /\ proc = "serving"
    /\ listening
    /\ pc[r] = "idle"
    /\ req' = [req EXCEPT ![r] = [path |-> path, query |-> query]]
    /\ IF Match(path)
       THEN /\ pc' = [pc EXCEPT ![r] = "hello_23"]
            /\ resp' = resp
       ELSE /\ pc' = [pc EXCEPT ![r] = "done"]
            /\ resp' = [resp EXCEPT ![r] = NotFound]
    /\ UNCHANGED <<proc_vars, env, message, read_env>>

\* 'Hello, Welcome to KodeCamp DevOps Bootcamp!'
OldDefault ==
    <<"H", "e", "l", "l", "o", ",", " ", "W", "e", "l", "c", "o", "m", "e", " ",
      "t", "o", " ", "K", "o", "d", "e", "C", "a", "m", "p", " ",
      "D", "e", "v", "O", "p", "s", " ", "B", "o", "o", "t", "c", "a", "m", "p", "!">>

\* Variant: the commented-out version of line 9, which reads WELCOME_MESSAGE.
hello_23_old(r) ==
    /\ pc[r] = "hello_23"
    /\ message' = [message EXCEPT ![r] = os_getenv("WELCOME_MESSAGE", OldDefault)]
    /\ read_env' = [read_env EXCEPT ![r] = Restrict(env, {"MESSAGE"})]
    /\ pc' = [pc EXCEPT ![r] = "hello_24"]
    /\ UNCHANGED <<proc_vars, env, req, resp>>

\* Variant: the greeting another request has already read is reused.
hello_23_cached(r) ==
    LET others == {q \in Reqs \ {r} : pc[q] \in {"hello_24", "done"} /\ Match(req[q].path)}
    IN  /\ pc[r] = "hello_23"
        /\ message' = [message EXCEPT ![r] =
                          IF others # {}
                          THEN message[CHOOSE q \in others : TRUE]
                          ELSE os_getenv("MESSAGE", Default)]
        /\ read_env' = [read_env EXCEPT ![r] = Restrict(env, {"MESSAGE"})]
        /\ pc' = [pc EXCEPT ![r] = "hello_24"]
        /\ UNCHANGED <<proc_vars, env, req, resp>>

\* Variant: os.environ.setdefault('MESSAGE', 'Hello, Default!'), which writes
\* the default into the environment when MESSAGE is not set.
hello_23_setdefault(r) ==
    /\ pc[r] = "hello_23"
    /\ message' = [message EXCEPT ![r] = os_getenv("MESSAGE", Default)]
    /\ read_env' = [read_env EXCEPT ![r] = Restrict(env, {"MESSAGE"})]
    /\ env' = [x \in (DOMAIN env) \cup {"MESSAGE"} |->
                  IF x \in DOMAIN env THEN env[x] ELSE Default]
    /\ pc' = [pc EXCEPT ![r] = "hello_24"]
    /\ UNCHANGED <<proc_vars, req, resp>>

\* Variant: os.getenv('MESSAGE', os.getenv('WELCOME_MESSAGE', 'Hello, Default!')).
hello_23_fallback(r) ==
    /\ pc[r] = "hello_23"
    /\ message' = [message EXCEPT ![r] =
                      os_getenv("MESSAGE", os_getenv("WELCOME_MESSAGE", Default))]
    /\ read_env' = [read_env EXCEPT ![r] = Restrict(env, {"MESSAGE"})]
    /\ pc' = [pc EXCEPT ![r] = "hello_24"]
    /\ UNCHANGED <<proc_vars, env, req, resp>>

\* Variant: `message` is a module-level global, one for all requests.
hello_23_global(r) ==
    /\ pc[r] = "hello_23"
    /\ message' = [q \in Reqs |-> os_getenv("MESSAGE", Default)]
    /\ read_env' = [read_env EXCEPT ![r] = Restrict(env, {"MESSAGE"})]
    /\ pc' = [pc EXCEPT ![r] = "hello_24"]
    /\ UNCHANGED <<proc_vars, env, req, resp>>

\* Line 23: message = os.getenv('MESSAGE', 'Hello, Default!')
hello_23(r) ==
    /\ pc[r] = "hello_23"
    /\ message' = [message EXCEPT ![r] = os_getenv("MESSAGE", Default)]
    /\ read_env' = [read_env EXCEPT ![r] = Restrict(env, {"MESSAGE"})]
    /\ pc' = [pc EXCEPT ![r] = "hello_24"]
    /\ UNCHANGED <<proc_vars, env, req, resp>>

\* Line 24: return f"<h1>{message}</h1>"
hello_24(r) ==
    /\ pc[r] = "hello_24"
    /\ resp' = [resp EXCEPT ![r] = make_response(fstring(message[r]))]
    /\ pc' = [pc EXCEPT ![r] = "done"]
    /\ UNCHANGED <<proc_vars, env, req, message, read_env>>

\* The response has been sent: the request and hello()'s frame are gone.
finish_request(r) ==
    /\ pc[r] = "done"
    /\ pc' = [pc EXCEPT ![r] = "idle"]
    /\ req' = [req EXCEPT ![r] = NoReq]
    /\ message' = [message EXCEPT ![r] = <<>>]
    /\ resp' = [resp EXCEPT ![r] = NoResp]
    /\ read_env' = [read_env EXCEPT ![r] = NoEnv]
    /\ UNCHANGED <<proc_vars, env>>

\* Two requests at a time, every request input, both environment variables.
Next ==
    \/ app_run
    \/ \E k \in EnvKeys, v \in Str : setenv(k, v)
    \/ \E k \in EnvKeys : unsetenv(k)
    \/ \E r \in Pair, p \in Paths, q \in Queries : dispatch_request(r, p, q)
    \/ \E r \in Pair : hello_23(r)
    \/ \E r \in Pair : hello_24(r)
    \/ \E r \in Pair : finish_request(r)

Spec == Init /\ [][Next]_vars

\* Every request slot in use, with MESSAGE the only variable that is set.
InitThreaded == Init /\ env \in Envs({"MESSAGE"})

NextThreaded ==
    \/ app_run
    \/ \E v \in Str : setenv("MESSAGE", v)
    \/ unsetenv("MESSAGE")
    \/ \E r \in Reqs, p \in Paths : dispatch_request(r, p, "")
    \/ \E r \in Reqs : hello_23(r)
    \/ \E r \in Reqs : hello_24(r)
    \/ \E r \in Reqs : finish_request(r)

SpecThreaded == InitThreaded /\ [][NextThreaded]_vars

----------------------------------------------------------------------------
\* What the specification calls the resolved greeting of a binding of MESSAGE:
\* its value when it is set, the default when it is not.
Resolved(e) == IF "MESSAGE" \in DOMAIN e THEN e["MESSAGE"] ELSE Default

\* The body `<h1>v</h1>`.
Greeting(v) == <<"<", "h", "1", ">">> \o v \o <<"<", "/", "h", "1", ">">>

\* Request r was a GET / and its response is ready.
Answered(r) == pc[r] = "done" /\ req[r].path = "/"

Unset(r) == "MESSAGE" \notin DOMAIN read_env[r]

SetTo(r, v) == IF Unset(r) THEN FALSE ELSE read_env[r]["MESSAGE"] = v

\* C1: a GET / handled while MESSAGE is unset is answered with status 200
\* and the body <h1>Hello, Default!</h1>.
C1_DefaultWhenUnset ==
    \A r \in Reqs :
        (Answered(r) /\ Unset(r)) =>
            /\ resp[r].status = 200
            /\ resp[r].body = Greeting(Default)

C1_Witness ==
    \E r \in Reqs :
        /\ Answered(r)
        /\ Unset(r)
        /\ "WELCOME_MESSAGE" \in DOMAIN env
        /\ resp[r].status = 200

\* C2: for every string s that MESSAGE is set to, the empty string and the
\* strings of <, > and & included, the body of the response to GET / is
\* <h1>, then s character for character, then </h1>.
C2_Verbatim ==
    \A r \in Reqs : \A s \in Str :
        (Answered(r) /\ SetTo(r, s)) => resp[r].body = Greeting(s)

C2_Witness ==
    \E r1, r2 \in Reqs :
        /\ Answered(r1) /\ SetTo(r1, <<>>)
        /\ Answered(r2) /\ SetTo(r2, <<"<">>)
        /\ resp[r2].body = <<"<", "h", "1", ">", "<", "<", "/", "h", "1", ">">>

\* C3, as claimed: the default is substituted whenever MESSAGE is absent or
\* is the empty string, so the body is <h1>Hello, Default!</h1> in both cases.
C3_DefaultWhenAbsentOrEmpty ==
    \A r \in Reqs :
        (Answered(r) /\ (Unset(r) \/ SetTo(r, <<>>))) =>
            resp[r].body = Greeting(Default)

\* C3, as amended: the default is substituted when MESSAGE is absent; when
\* MESSAGE is the empty string the body is <h1></h1>, not the default's.
C3_DefaultOnlyWhenAbsent ==
    \A r \in Reqs :
        /\ (Answered(r) /\ Unset(r)) => resp[r].body = Greeting(Default)
        /\ (Answered(r) /\ SetTo(r, <<>>)) =>
               /\ resp[r].body = <<"<", "h", "1", ">", "<", "/", "h", "1", ">">>
               /\ resp[r].body # Greeting(Default)

C3_Witness ==
    \E r \in Reqs : Answered(r) /\ SetTo(r, <<>>) /\ resp[r].status = 200

\* C4: MESSAGE is read again by every request and never cached: each
\* response's body is the greeting of the value MESSAGE had when that
\* request read it, whatever it was at startup or for an earlier request.
C4_ReadPerRequest ==
    \A r \in Reqs :
        Answered(r) => resp[r].body = Greeting(Resolved(read_env[r]))

\* Two requests answered around a change of MESSAGE, each with its own value,
\* the later value being the current one.
C4_Witness ==
    \E r1, r2 \in Reqs :
        /\ Answered(r1) /\ Answered(r2)
        /\ read_env[r1] # read_env[r2]
        /\ resp[r1].body # resp[r2].body
        /\ resp[r2].body = Greeting(Resolved(env))

C6_OnlyRoot ==
    \A r \in Reqs :
        (pc[r] # "idle" /\ req[r].path # "/") =>
            /\ pc[r] = "done"
            /\ resp[r].status = 404
            /\ message[r] = <<>>
            /\ \A v \in Str \cup {Default} : resp[r].body # Greeting(v)

C6_Witness ==
    \E r \in Reqs :
        pc[r] = "done" /\ req[r].path = "/nonexistent" /\ resp[r].status = 404

\* C7: the program binds 0.0.0.0:80 at most once; when the bind fails the
\* process has exited with a non-zero status, is not listening, never serves
\* and handles no request.
C7_BindFailureIsFatal ==
    /\ binds <= 1
    /\ (~port_free) => (proc # "serving" /\ ~listening /\ \A r \in Reqs : pc[r] = "idle")
    /\ (~port_free /\ binds > 0) =>
           /\ proc = "exited"
           /\ exit_status # <<>>
           /\ \A i \in DOMAIN exit_status : exit_status[i] # 0

C7_Witness == ~port_free /\ binds = 1 /\ proc = "exited" /\ exit_status = <<1>>

\* C8: the environment is read-only for the program: no step of the handling
\* of a request (to `/` or to another path) changes any environment variable
\* or the state of the server.
C8_EnvReadOnly == [][(pc' # pc) => (env' = env /\ proc_vars' = proc_vars)]_vars

C8_Witness ==
    \E r1, r2 \in Reqs :
        /\ Answered(r1) /\ Unset(r1) /\ "MESSAGE" \notin DOMAIN env
        /\ pc[r2] = "done" /\ req[r2].path = "/nonexistent"

\* C9: the response to GET / is a function of the value of MESSAGE alone: two
\* requests that read the same binding of MESSAGE get the same response,
\* whatever their query strings, the requests before them and the other
\* environment variables (WELCOME_MESSAGE among them).
C9_FunctionOfMessage ==
    \A r1, r2 \in Reqs :
        (Answered(r1) /\ Answered(r2) /\ read_env[r1] = read_env[r2]) =>
            resp[r1] = resp[r2]

C9_Witness ==
    \E r1, r2 \in Reqs :
        /\ Answered(r1) /\ Answered(r2)
        /\ read_env[r1] = read_env[r2]
        /\ req[r1].query # req[r2].query
        /\ "WELCOME_MESSAGE" \in DOMAIN env
        /\ env["WELCOME_MESSAGE"] # Resolved(read_env[r1])

\* C10: with several GET / in flight, under every interleaving, each
\* request's greeting is the one it read itself at line 23, and its body is
\* <h1>v</h1> for that v: no request sees the value of another.
C10_NoCrossTalk ==
    \A r \in Reqs :
        (pc[r] # "idle" /\ req[r].path = "/") =>
            /\ (pc[r] = "hello_23") => message[r] = <<>>
            /\ (pc[r] \in {"hello_24", "done"}) => message[r] = Resolved(read_env[r])
            /\ (pc[r] = "done") => resp[r].body = Greeting(message[r])

\* Every slot holds a GET / and two of them, both past line 23, hold
\* different greetings.
C10_Witness ==
    /\ \A r \in Reqs : pc[r] # "idle" /\ req[r].path = "/"
    /\ \E r1, r2 \in Reqs :
           /\ pc[r1] = "hello_24"
           /\ pc[r2] = "done"
           /\ message[r1] # message[r2]
====
